---- MODULE Spec2Model ----
(***************************************************************************)
(* Model of the control plane's REST resource web service                  *)
(* (package api_server: resourceWs and its handlers) and of the network    *)
(* RBAC listener configurer (package listeners: NetworkRBAC,               *)
(* NetworkRBACConfigurer, createRbacFilter, createRbacRule, createPolicy). *)
(*                                                                         *)
(* Texts that the code inspects character by character (listener names,    *)
(* tag values, SPIFFE identities) are sequences of one-character strings;  *)
(* texts that are only compared (URL parameters, envelope fields) are      *)
(* plain strings.                                                          *)
(***************************************************************************)
EXTENDS Integers, Sequences, FiniteSets, TLC

(***************************************************************************)
(* Bounds of the model.                                                    *)
(***************************************************************************)
\* longest list of source selectors of one traffic permission
MaxSources == 2
\* most filter chains of one listener
MaxChains == 2
\* highest version a stored resource reaches
MaxVersion == 2

VARIABLES
    \* ---- package listeners: one run of the listener builder ----
    phase,        \* "none" | "new" | "configured" | "built"
    listener,     \* the v2.Listener under construction: [name, filterChains]
    rbacEnabled,  \* the switch captured by the NetworkRBAC option
    permissions,  \* the TrafficPermissionResourceList captured by the option
    config,       \* ListenerBuilderConfig: the configurers added so far
    buildErr,     \* whether the build returned an error
    \* ---- package api_server: the resource web service and its store ----
    store,        \* the ResourceStore: key -> stored resource (or Absent)
    origin,       \* history: key -> mesh of the URL of the PUT that created it
    pc,           \* per handler: "idle" | "create" | "update" | "done"
    request,      \* per handler: the request being served
    resource,     \* per handler: the resource filled in by Store Get
    response,     \* per handler: the writes made to the restful.Response
    calls         \* per handler: the Store operations invoked, with outcome

rbacVars == <<phase, listener, rbacEnabled, permissions, config, buildErr>>

apiVars == <<store, origin, pc, request, resource, response, calls>>

vars == <<phase, listener, rbacEnabled, permissions, config, buildErr,
          store, origin, pc, request, resource, response, calls>>

(***************************************************************************)
(* Texts of the listeners package.                                         *)
(***************************************************************************)
\* a byte that is not valid UTF-8
InvalidByte == "0xFF"

\* v1alpha1.MatchAllTag
MatchAllTag == <<"*">>

\* envoy_wellknown.RoleBasedAccessControl
RoleBasedAccessControl ==
    <<"e","n","v","o","y",".","f","i","l","t","e","r","s",".",
      "n","e","t","w","o","r","k",".","r","b","a","c">>

StrAllowAll == <<"a","l","l","o","w","-","a","l","l">>
StrAllowWeb == <<"a","l","l","o","w","-","w","e","b">>
StrDefault == <<"d","e","f","a","u","l","t">>
StrM1 == <<"m","1">>
StrBadMesh == <<"m", InvalidByte>>
StrWeb == <<"w","e","b">>
StrInbound ==
    <<"i","n","b","o","u","n","d",":","1","2","7",".","0",".","0",".","1",
      ":","2","1","0","1","1">>
StrOutbound == <<"o","u","t","b","o","u","n","d",":","w","e","b","-","a","p","i">>

Letters ==
    {"a","b","c","d","e","f","g","h","i","j","k","l","m",
     "n","o","p","q","r","s","t","u","v","w","x","y","z"}
CapitalLetters ==
    {"A","B","C","D","E","F","G","H","I","J","K","L","M",
     "N","O","P","Q","R","S","T","U","V","W","X","Y","Z"}
Digits == {"0","1","2","3","4","5","6","7","8","9"}

\* util_xds.SanitizeMetric: every character outside [a-zA-Z_\-0-9] becomes "_"
SanitizeMetric(metric) ==
    [i \in 1..Len(metric) |->
        IF metric[i] \in Letters \cup CapitalLetters \cup Digits \cup {"_", "-"}
        THEN metric[i]
        ELSE "_"]

(***************************************************************************)
(* createPolicy: one principal per source selector, in source order.       *)
(***************************************************************************)
AnyPrincipal == [identifier |-> "Any", exact |-> <<>>]

AuthenticatedPrincipal(name) == [identifier |-> "Authenticated", exact |-> name]

SpiffeScheme == <<"s","p","i","f","f","e",":","/","/">>

\* variant: the identity is built in the default mesh, not the permission's
PrincipalOfDefaultMesh(permission, source) ==
    LET service == source.service
    IN  IF service = MatchAllTag
        THEN AnyPrincipal
        ELSE AuthenticatedPrincipal(
                 SpiffeScheme \o StrDefault \o <<"/">> \o service)

PrincipalOf(permission, source) ==
    LET service == source.service
    IN  IF service = MatchAllTag
        THEN AnyPrincipal
        ELSE AuthenticatedPrincipal(
                 SpiffeScheme \o permission.mesh \o <<"/">> \o service)

createPolicy(permission) ==
    [permissions |-> <<[any |-> TRUE]>>,
     principals  |-> [i \in 1..Len(permission.sources) |->
                         PrincipalOf(permission, permission.sources[i])]]

(***************************************************************************)
(* createRbacRule: the policies map is filled in list order, so a later    *)
(* permission of the same name replaces an earlier one.                    *)
(***************************************************************************)
RECURSIVE PoliciesLoop(_, _, _)
PoliciesLoop(items, i, policies) ==
    IF i > Len(items)
    THEN policies
    ELSE LET policyName == items[i].name
         IN  PoliciesLoop(items, i + 1,
                 [k \in DOMAIN policies \cup {policyName} |->
                     IF k = policyName THEN createPolicy(items[i])
                     ELSE policies[k]])

EmptyPolicies == [k \in {} |-> createPolicy([sources |-> <<>>])]

\* variant: the separator after the sanitized listener name is left out
StatPrefixNoSeparator(listenerName) == SanitizeMetric(listenerName)

StatPrefix(listenerName) == SanitizeMetric(listenerName) \o <<".">>

\* variant: the policies are keyed by the permission's mesh, not its name
RECURSIVE PoliciesByMeshLoop(_, _, _)
PoliciesByMeshLoop(items, i, policies) ==
    IF i > Len(items)
    THEN policies
    ELSE LET policyName == items[i].mesh
         IN  PoliciesByMeshLoop(items, i + 1,
                 [k \in DOMAIN policies \cup {policyName} |->
                     IF k = policyName THEN createPolicy(items[i])
                     ELSE policies[k]])

createRbacRuleKeyedByMesh(listenerName, perms) ==
    [rules      |-> [action |-> "ALLOW",
                     policies |-> PoliciesByMeshLoop(perms, 1, EmptyPolicies)],
     statPrefix |-> StatPrefix(listenerName)]

createRbacRule(listenerName, perms) ==
    [rules      |-> [action |-> "ALLOW",
                     policies |-> PoliciesLoop(perms, 1, EmptyPolicies)],
     statPrefix |-> StatPrefix(listenerName)]

(***************************************************************************)
(* ptypes.MarshalAny: marshalling a proto3 message fails when one of its   *)
(* string fields (or map keys) is not valid UTF-8.  The outcome is a       *)
(* function of the message alone.                                          *)
(***************************************************************************)
ValidUTF8(s) == \A i \in 1..Len(s) : s[i] # InvalidByte

MarshalAny(rule) ==
    LET policies == rule.rules.policies
        ok == /\ ValidUTF8(rule.statPrefix)
              /\ \A k \in DOMAIN policies :
                    /\ ValidUTF8(k)
                    /\ \A i \in 1..Len(policies[k].principals) :
                          ValidUTF8(policies[k].principals[i].exact)
    IN  [err |-> ~ok, value |-> rule]

NilFilter == [name |-> <<>>, typedConfig |-> [kind |-> "nil"]]

createRbacFilter(listenerName, perms) ==
    LET rbacRule == createRbacRule(listenerName, perms)
        rbacMarshalled == MarshalAny(rbacRule)
    IN  IF rbacMarshalled.err
        THEN [err |-> TRUE, filter |-> NilFilter]
        ELSE [err |-> FALSE,
              filter |-> [name |-> RoleBasedAccessControl,
                          typedConfig |-> [kind |-> "rbac",
                                           rbac |-> rbacMarshalled.value]]]

(***************************************************************************)
(* NetworkRBACConfigurer.Configure: for each filter chain in turn, build   *)
(* the filter and put it in front of the chain's filters; return at the    *)
(* first build error, leaving the chains already visited as they are.      *)
(***************************************************************************)
\* variant: the filter is put behind the chain's filters
AppendFilter(l, i, filter) ==
    [l EXCEPT !.filterChains[i] = Append(l.filterChains[i], filter)]

PrependFilter(l, i, filter) ==
    [l EXCEPT !.filterChains[i] = <<filter>> \o l.filterChains[i]]

RECURSIVE ConfigureFrom(_, _, _)
ConfigureFrom(l, c, i) ==
    IF i > Len(l.filterChains)
    THEN [listener |-> l, err |-> FALSE]
    ELSE LET r == createRbacFilter(l.name, c.permissions)
         IN  IF r.err
             THEN [listener |-> l, err |-> TRUE]
             ELSE ConfigureFrom(PrependFilter(l, i, r.filter), c, i + 1)

\* variant: the filter is put in front of the chain before the build error
\* is looked at
RECURSIVE ConfigurePrependingFirst(_, _, _)
ConfigurePrependingFirst(l, c, i) ==
    IF i > Len(l.filterChains)
    THEN [listener |-> l, err |-> FALSE]
    ELSE LET r == createRbacFilter(l.name, c.permissions)
             prepended == PrependFilter(l, i, r.filter)
         IN  IF r.err
             THEN [listener |-> prepended, err |-> TRUE]
             ELSE ConfigurePrependingFirst(prepended, c, i + 1)

ConfigureCheckingLate(l, c) == ConfigurePrependingFirst(l, c, 1)

Configure(l, c) == ConfigureFrom(l, c, 1)

(***************************************************************************)
(* Inputs of a build.                                                      *)
(***************************************************************************)
RECURSIVE SeqsUpTo(_, _)
SeqsUpTo(S, n) ==
    IF n = 0 THEN {<<>>}
    ELSE LET shorter == SeqsUpTo(S, n - 1)
         IN  shorter \cup {Append(s, x) : s \in shorter, x \in S}

ListenerNames == {StrInbound, StrOutbound}

TcpProxy == [name |-> <<"t","c","p">>, typedConfig |-> [kind |-> "tcp_proxy"]]
HttpConnectionManager ==
    [name |-> <<"h","t","t","p">>, typedConfig |-> [kind |-> "http"]]

\* the filters a chain holds before the configurer runs
ExistingFilters == {<<>>, <<TcpProxy>>, <<HttpConnectionManager, TcpProxy>>}

FilterChainLists == SeqsUpTo(ExistingFilters, MaxChains)

PermissionNames == {StrAllowAll, StrAllowWeb}
Meshes == {StrDefault, StrM1, StrBadMesh}
Services == {MatchAllTag, StrWeb}

SourceLists == SeqsUpTo({[service |-> s] : s \in Services}, MaxSources)

\* the traffic permissions of one mesh: names are unique within a mesh
PermissionLists ==
    UNION {
        {<<>>}
        \cup {<<[name |-> n, mesh |-> m, sources |-> s]>> :
                 n \in PermissionNames, s \in SourceLists}
        \cup {<<[name |-> n1, mesh |-> m, sources |-> s1],
                [name |-> n2, mesh |-> m, sources |-> s2]>> :
                 <<n1, n2>> \in {p \in PermissionNames \X PermissionNames : p[1] # p[2]},
                 <<s1, s2>> \in SourceLists \X SourceLists}
        : m \in Meshes}

(***************************************************************************)
(* Package api_server: the resource store.                                 *)
(***************************************************************************)
\* const namespace
namespace == "default"

\* the meshes a URL or a body may name
MeshNames == {"default", "mesh-1"}
\* the resource names a URL may give, and the names a body may give
Names == {"x"}
BodyNames == {"x", "y"}
\* the type served by this web service, and another one
WsType == "TrafficRoute"
Types == {WsType, "Mesh"}
\* the spec payloads
Specs == {"s1", "s2"}

Handlers == {"h1", "h2"}

StoreKeys == MeshNames \X Names

Absent == [version |-> 0, spec |-> "none"]

\* outcome of a Store operation that worked
Ok == "ok"

\* Store.Get: fills the resource in place; NotFound if absent
StoreGet(st, key, fault) ==
    IF fault THEN [err |-> "BackendUnavailable", res |-> Absent]
    ELSE IF st[key] = Absent THEN [err |-> "NotFound", res |-> Absent]
    ELSE [err |-> Ok, res |-> st[key]]

\* Store.Create: AlreadyExists if present; the new resource has version 1
StoreCreate(st, key, spec, fault) ==
    IF fault THEN [err |-> "BackendUnavailable", store |-> st]
    ELSE IF st[key] # Absent THEN [err |-> "AlreadyExists", store |-> st]
    ELSE [err |-> Ok,
          store |-> [st EXCEPT ![key] = [version |-> 1, spec |-> spec]]]

\* Store.Update: Conflict unless the resource carries the stored version;
\* a successful update increments the version
StoreUpdate(st, key, res, fault) ==
    IF fault THEN [err |-> "BackendUnavailable", store |-> st]
    ELSE IF st[key] = Absent \/ st[key].version # res.version
    THEN [err |-> "Conflict", store |-> st]
    ELSE [err |-> Ok,
          store |-> [st EXCEPT ![key] = [version |-> res.version + 1,
                                         spec |-> res.spec]]]

\* Store.Delete: NotFound if absent; otherwise the resource is removed
StoreDelete(st, key, fault) ==
    IF fault THEN [err |-> "BackendUnavailable", store |-> st]
    ELSE IF st[key] = Absent THEN [err |-> "NotFound", store |-> st]
    ELSE [err |-> Ok, store |-> [st EXCEPT ![key] = Absent]]

\* Store.List: all resources of the type in the given namespace
StoreList(st, ns, fault) ==
    IF fault THEN [err |-> "BackendUnavailable", items |-> {}]
    ELSE [err |-> Ok,
          items |-> {[name |-> n, spec |-> st[<<ns, n>>].spec] :
                        n \in {m \in Names : st[<<ns, m>>] # Absent}}]

(***************************************************************************)
(* Requests and responses.                                                 *)
(***************************************************************************)
NoBody == [decodes |-> FALSE, name |-> "", type |-> "", mesh |-> "", spec |-> "none"]

\* bodies of a PUT request to /meshes/{mesh}/<type>/{name}: a JSON document
\* with envelope and spec (every spec with the matching envelope, one spec
\* with an envelope that differs in its name, its type or its mesh), or
\* something ReadEntity cannot decode
Bodies(mesh, name) ==
    {[decodes |-> TRUE, name |-> name, type |-> WsType, mesh |-> mesh,
      spec |-> s] : s \in Specs}
    \cup {[decodes |-> TRUE, name |-> n, type |-> WsType, mesh |-> mesh,
           spec |-> "s1"] : n \in BodyNames \ {name}}
    \cup {[decodes |-> TRUE, name |-> name, type |-> t, mesh |-> mesh,
           spec |-> "s1"] : t \in Types \ {WsType}}
    \cup {[decodes |-> TRUE, name |-> name, type |-> WsType, mesh |-> m,
           spec |-> "s1"] : m \in MeshNames \ {mesh}}
    \cup {NoBody}

NoRequest == [method |-> "", mesh |-> "", name |-> "", body |-> NoBody]

\* one call on the restful.Response
ErrorWrite(httpStatus) == [status |-> httpStatus, kind |-> "error", items |-> {}]
HeaderWrite(httpStatus) == [status |-> httpStatus, kind |-> "header", items |-> {}]
JsonWrite(kind, items) == [status |-> 200, kind |-> kind, items |-> items]

\* writeError
writeError(resp, httpStatus) == Append(resp, ErrorWrite(httpStatus))

\* the status the client receives: the first header written, 200 if the
\* handler returns without writing
Status(h) == IF response[h] = <<>> THEN 200 ELSE response[h][1].status

\* a Store call: the operation, its outcome and, for Update, the version
\* the resource carried
Call(op, err, version) == [op |-> op, err |-> err, version |-> version]

\* ResourceReqResp.UnmarshalJSON via request.ReadEntity: on an error the
\* envelope fields keep their zero values
ReadEntity(body) ==
    IF body.decodes
    THEN [err |-> FALSE, name |-> body.name, type |-> body.type,
          mesh |-> body.mesh, spec |-> body.spec]
    ELSE [err |-> TRUE, name |-> "", type |-> "", mesh |-> "", spec |-> "none"]

\* variant: the mesh of the body is not compared with the mesh of the URL
validateNameAndTypeOnly(req, resourceReq) ==
    IF req.name # resourceReq.name THEN "Name from the URL has to be the same as in body"
    ELSE IF WsType # resourceReq.type THEN "Type from the URL has to be the same as in body"
    ELSE ""

\* validateResourceRequest: "" stands for a nil error
validateResourceRequest(req, resourceReq) ==
    IF req.name # resourceReq.name THEN "Name from the URL has to be the same as in body"
    ELSE IF WsType # resourceReq.type THEN "Type from the URL has to be the same as in body"
    ELSE IF req.mesh # resourceReq.mesh THEN "Mesh from the URL has to be the same as in body"
    ELSE ""

(***************************************************************************)
(* The listener builder.                                                   *)
(***************************************************************************)
NoListener == [name |-> <<>>, filterChains |-> <<>>]

Init ==
    /\ phase = "none"
    /\ listener = NoListener
    /\ rbacEnabled = FALSE
    /\ permissions = <<>>
    /\ config = <<>>
    /\ buildErr = FALSE
    /\ store = [k \in StoreKeys |-> Absent]
    /\ origin = [k \in StoreKeys |-> ""]
    /\ pc = [h \in Handlers |-> "idle"]
    /\ request = [h \in Handlers |-> NoRequest]
    /\ resource = [h \in Handlers |-> Absent]
    /\ response = [h \in Handlers |-> <<>>]
    /\ calls = [h \in Handlers |-> <<>>]

\* a new builder over a listener that already carries its filter chains
NewListener ==
    /\ phase = "none"
    /\ \E name \in ListenerNames, chains \in FilterChainLists :
          listener' = [name |-> name, filterChains |-> chains]
    /\ phase' = "new"
    /\ UNCHANGED <<rbacEnabled, permissions, config, buildErr>>
    /\ UNCHANGED apiVars

\* the NetworkRBAC option: the configurer is added only when enabled
\* variant: no configurer is added for an empty permission list
AddConfigurersUnlessEmpty(enabled, perms, cfg) ==
    IF enabled /\ perms # <<>> THEN Append(cfg, [permissions |-> perms]) ELSE cfg

AddConfigurers(enabled, perms, cfg) ==
    IF enabled THEN Append(cfg, [permissions |-> perms]) ELSE cfg

NetworkRBAC ==
    /\ phase = "new"
    /\ \E enabled \in BOOLEAN, perms \in PermissionLists :
          /\ rbacEnabled' = enabled
          /\ permissions' = perms
          /\ config' = AddConfigurers(enabled, perms, config)
    /\ phase' = "configured"
    /\ UNCHANGED <<listener, buildErr>>
    /\ UNCHANGED apiVars

\* Build: the configurers run in registration order; the first error aborts
RECURSIVE RunConfigurers(_, _, _)
RunConfigurers(l, cfg, i) ==
    IF i > Len(cfg)
    THEN [listener |-> l, err |-> FALSE]
    ELSE LET r == Configure(l, cfg[i])
         IN  IF r.err THEN r ELSE RunConfigurers(r.listener, cfg, i + 1)

Build ==
    /\ phase = "configured"
    /\ LET r == RunConfigurers(listener, config, 1)
       IN  /\ listener' = r.listener
           /\ buildErr' = r.err
    /\ phase' = "built"
    /\ UNCHANGED <<rbacEnabled, permissions, config>>
    /\ UNCHANGED apiVars

\* the built listener is handed over (or dropped) and the builder is gone
Discard ==
    /\ phase = "built"
    /\ phase' = "none"
    /\ listener' = NoListener
    /\ rbacEnabled' = FALSE
    /\ permissions' = <<>>
    /\ config' = <<>>
    /\ buildErr' = FALSE
    /\ UNCHANGED apiVars

NextRBAC == NewListener \/ NetworkRBAC \/ Build \/ Discard

SpecRBAC == Init /\ [][NextRBAC]_vars

(***************************************************************************)
(* The handlers of resourceWs.  A handler serves one request at a time;    *)
(* findResource, listResources and deleteResource make one Store call and  *)
(* are one step each.  createOrUpdateResource makes two Store calls, a Get *)
(* and then a Create or an Update, and other handlers may run in between.  *)
(***************************************************************************)
Free(h) == pc[h] \in {"idle", "done"}

Serve(h, req, resp, storeCalls) ==
    /\ request' = [request EXCEPT ![h] = req]
    /\ response' = [response EXCEPT ![h] = resp]
    /\ calls' = [calls EXCEPT ![h] = storeCalls]

\* findResource: the response to the outcome of Store Get
FindResponse(got, mesh, name) ==
    IF got.err # Ok
    THEN IF got.err = "NotFound"
         THEN writeError(<<>>, 404)
         ELSE writeError(<<>>, 500)
    ELSE <<JsonWrite("resource",
              {[type |-> WsType, name |-> name, mesh |-> mesh,
                spec |-> got.res.spec]})>>

findResource(h) ==
    /\ Free(h)
    /\ \E meshName \in MeshNames, name \in Names, fault \in BOOLEAN :
          LET got == StoreGet(store, <<namespace, name>>, fault)
          IN  Serve(h, [method |-> "GET", mesh |-> meshName, name |-> name,
                        body |-> NoBody],
                    FindResponse(got, meshName, name),
                    <<Call("Get", got.err, 0)>>)
    /\ pc' = [pc EXCEPT ![h] = "done"]
    /\ resource' = [resource EXCEPT ![h] = Absent]
    /\ UNCHANGED <<store, origin>>
    /\ UNCHANGED rbacVars

\* listResources: every item of the store's list, labelled with the mesh
\* of the URL
ListResponse(listed, meshName) ==
    IF listed.err # Ok
    THEN writeError(<<>>, 500)
    ELSE <<JsonWrite("list",
              {[type |-> WsType, name |-> item.name, mesh |-> meshName,
                spec |-> item.spec] : item \in listed.items})>>

listResources(h) ==
    /\ Free(h)
    /\ \E meshName \in MeshNames, fault \in BOOLEAN :
          LET listed == StoreList(store, namespace, fault)
          IN  Serve(h, [method |-> "LIST", mesh |-> meshName, name |-> "",
                        body |-> NoBody],
                    ListResponse(listed, meshName),
                    <<Call("List", listed.err, 0)>>)
    /\ pc' = [pc EXCEPT ![h] = "done"]
    /\ resource' = [resource EXCEPT ![h] = Absent]
    /\ UNCHANGED <<store, origin>>
    /\ UNCHANGED rbacVars

\* deleteResource: the response to the outcome of Store Delete
DeleteResponse(deleted) ==
    IF deleted.err # Ok THEN writeError(<<>>, 500) ELSE <<>>

deleteResource(h) ==
    /\ Free(h)
    /\ \E meshName \in MeshNames, name \in Names, fault \in BOOLEAN :
          LET key == <<namespace, name>>
              deleted == StoreDelete(store, key, fault)
          IN  /\ Serve(h, [method |-> "DELETE", mesh |-> meshName, name |-> name,
                           body |-> NoBody],
                       DeleteResponse(deleted),
                       <<Call("Delete", deleted.err, 0)>>)
              /\ store' = deleted.store
              /\ origin' = IF deleted.err = Ok
                           THEN [origin EXCEPT ![key] = ""]
                           ELSE origin
    /\ pc' = [pc EXCEPT ![h] = "done"]
    /\ resource' = [resource EXCEPT ![h] = Absent]
    /\ UNCHANGED rbacVars

\* createOrUpdateResource up to and including its Store Get.  The decode
\* error is answered with 400 and the handler goes on to the validation.
\* The spec the Get read is never used: updateResource replaces it by the
\* spec of the body before it calls the store, so the handler's resource is
\* kept with that spec already set.
createOrUpdateResource(h) ==
    /\ Free(h)
    /\ \E meshName \in MeshNames, name \in Names, fault \in BOOLEAN :
       \E body \in Bodies(meshName, name) :
          LET req == [method |-> "PUT", mesh |-> meshName, name |-> name,
                      body |-> body]
              resourceRes == ReadEntity(body)
              afterRead == IF resourceRes.err THEN writeError(<<>>, 400) ELSE <<>>
              invalid == validateResourceRequest(req, resourceRes)
              got == StoreGet(store, <<namespace, name>>, fault)
          IN  IF invalid # ""
              THEN /\ Serve(h, req, writeError(afterRead, 400), <<>>)
                   /\ pc' = [pc EXCEPT ![h] = "done"]
                   /\ resource' = [resource EXCEPT ![h] = Absent]
              ELSE /\ Serve(h, req,
                            IF got.err \in {Ok, "NotFound"}
                            THEN afterRead
                            ELSE writeError(afterRead, 500),
                            <<Call("Get", got.err, 0)>>)
                   /\ pc' = [pc EXCEPT ![h] =
                                IF got.err = "NotFound" THEN "create"
                                ELSE IF got.err = Ok THEN "update"
                                ELSE "done"]
                   /\ resource' = [resource EXCEPT ![h] =
                                      IF got.err = Ok
                                      THEN [got.res EXCEPT !.spec = resourceRes.spec]
                                      ELSE Absent]
    /\ UNCHANGED <<store, origin>>
    /\ UNCHANGED rbacVars

\* createResource: Store Create of the body's spec under the URL's name
createResource(st, name, spec, resp, fault) ==
    LET created == StoreCreate(st, <<namespace, name>>, spec, fault)
    IN  [store |-> created.store,
         err |-> created.err,
         response |-> IF created.err # Ok
                      THEN writeError(resp, 500)
                      ELSE Append(resp, HeaderWrite(201))]

createResourceStep(h) ==
    /\ pc[h] = "create"
    /\ \E fault \in BOOLEAN :
          LET key == <<namespace, request[h].name>>
              r == createResource(store, request[h].name, request[h].body.spec,
                                  response[h], fault)
          IN  /\ store' = r.store
              /\ origin' = IF r.err = Ok
                           THEN [origin EXCEPT ![key] = request[h].mesh]
                           ELSE origin
              /\ response' = [response EXCEPT ![h] = r.response]
              /\ calls' = [calls EXCEPT ![h] = Append(@, Call("Create", r.err, 0))]
    /\ pc' = [pc EXCEPT ![h] = "done"]
    /\ UNCHANGED <<request, resource>>
    /\ UNCHANGED rbacVars

\* variant: the update carries the version stored now, not the version read
updateResourceAtStoredVersion(st, name, res, spec, resp, fault) ==
    LET updated == StoreUpdate(st, <<namespace, name>>,
                               [version |-> st[<<namespace, name>>].version,
                                spec |-> spec], fault)
    IN  [store |-> updated.store,
         err |-> updated.err,
         version |-> st[<<namespace, name>>].version,
         response |-> IF updated.err # Ok
                      THEN writeError(resp, 500)
                      ELSE Append(resp, HeaderWrite(200))]

\* updateResource: the resource read by Get, with the body's spec set,
\* goes to Store Update
updateResource(st, name, res, spec, resp, fault) ==
    LET updated == StoreUpdate(st, <<namespace, name>>,
                               [res EXCEPT !.spec = spec], fault)
    IN  [store |-> updated.store,
         err |-> updated.err,
         version |-> res.version,
         response |-> IF updated.err # Ok
                      THEN writeError(resp, 500)
                      ELSE Append(resp, HeaderWrite(200))]

updateResourceStep(h) ==
    /\ pc[h] = "update"
    /\ \E fault \in BOOLEAN :
          LET key == <<namespace, request[h].name>>
              r == updateResource(store, request[h].name, resource[h],
                                  request[h].body.spec, response[h], fault)
          IN  /\ r.store[key].version <= MaxVersion
              /\ store' = r.store
              /\ response' = [response EXCEPT ![h] = r.response]
              /\ calls' = [calls EXCEPT ![h] =
                              Append(@, Call("Update", r.err, r.version))]
    /\ pc' = [pc EXCEPT ![h] = "done"]
    /\ UNCHANGED <<origin, request, resource>>
    /\ UNCHANGED rbacVars

PutStep(h) ==
    \/ createOrUpdateResource(h)
    \/ createResourceStep(h)
    \/ updateResourceStep(h)

NextPut == \E h \in Handlers : PutStep(h)

\* the web service with PUT requests only
SpecPut == Init /\ [][NextPut]_vars

Next ==
    \E h \in Handlers :
        \/ findResource(h)
        \/ listResources(h)
        \/ deleteResource(h)
        \/ createOrUpdateResource(h)
        \/ createResourceStep(h)
        \/ updateResourceStep(h)

\* the web service with all its routes
Spec == Init /\ [][Next]_vars

(***************************************************************************)
(* Properties of the resource web service.                                 *)
(***************************************************************************)
\* the handler has just answered a request (or gone on with one)
Acted(h) ==
    <<pc[h], request[h], response[h], calls[h]>>
        # <<pc'[h], request'[h], response'[h], calls'[h]>>

\* C4: isolation by mesh.  Whenever a list request for mesh A is answered,
\* every resource in the answer was created by a request to mesh A.
C4_IsolationByMesh ==
    [][\A h \in Handlers :
          (Acted(h) /\ request'[h].method = "LIST" /\ Status(h)' = 200)
              => \A item \in response'[h][1].items :
                    origin'[<<namespace, item.name>>] = request'[h].mesh]_vars

\* C5: a GET or DELETE of a name answers 404 when the Store operation
\* failed with NotFound and 500 when it failed with another error.
C5_StatusOfStoreErrors ==
    \A h \in Handlers :
        (pc[h] = "done" /\ request[h].method \in {"GET", "DELETE"})
            => /\ calls[h][1].err = "NotFound" => Status(h) = 404
               /\ calls[h][1].err \notin {Ok, "NotFound"} => Status(h) = 500

\* the envelope of a decoded body differs from the URL
EnvelopeMismatch(req) ==
    /\ req.method = "PUT"
    /\ req.body.decodes
    /\ \/ req.body.name # req.name
       \/ req.body.type # WsType
       \/ req.body.mesh # req.mesh

\* C8: a PUT whose body name, type or mesh differs from the URL is answered
\* with status 400 in one step that calls no Store operation and leaves
\* the store as it was.
C8_EnvelopeValidation ==
    [][\A h \in Handlers :
          (Acted(h) /\ EnvelopeMismatch(request'[h]))
              => /\ pc'[h] = "done"
                 /\ response'[h] = <<ErrorWrite(400)>>
                 /\ calls'[h] = <<>>
                 /\ store' = store
                 /\ origin' = origin]_vars

\* C8 witness: with a resource stored, a PUT to mesh-1 whose body names
\* another mesh has been answered with 400 without a Store call.
C8_Witness ==
    \E h \in Handlers :
        /\ pc[h] = "done"
        /\ EnvelopeMismatch(request[h])
        /\ request[h].body.mesh # request[h].mesh
        /\ Status(h) = 400
        /\ calls[h] = <<>>
        /\ store[<<namespace, request[h].name>>] # Absent

\* the handler's PUT passed the validation and its Get told it whether the
\* resource exists, and at which version
HasObserved(h) ==
    /\ request[h].method = "PUT"
    /\ calls[h] # <<>>
    /\ calls[h][1].err \in {Ok, "NotFound"}

\* the version the Get reported: 0 for an absent resource
Observed(h) == resource[h].version

Succeeded(h) == pc[h] = "done" /\ Status(h) \in {200, 201}

\* the Store calls of one PUT: a Get, then at most one write, never a retry
PutCallsInOrder(h) ==
    \/ calls[h] = <<>>
    \/ /\ Len(calls[h]) = 1
       /\ calls[h][1].op = "Get"
       /\ calls[h][1].err \in {Ok, "NotFound"} <=> pc[h] # "done"
    \/ /\ Len(calls[h]) = 2
       /\ pc[h] = "done"
       /\ calls[h][1] = Call("Get", "NotFound", 0)
       /\ calls[h][2].op = "Create"
    \/ /\ Len(calls[h]) = 2
       /\ pc[h] = "done"
       /\ calls[h][1] = Call("Get", Ok, 0)
       /\ calls[h][2].op = "Update"
       /\ calls[h][2].version = Observed(h)

\* of two handlers that observed the same state of the same name at most
\* one succeeds; once both are done and one has succeeded, the other was
\* answered 500 after a Store error among `errors` and the stored spec is
\* the spec of the one that succeeded
OneWriteWins(errors) ==
    \A p, q \in Handlers :
        (/\ p # q
         /\ HasObserved(p) /\ HasObserved(q)
         /\ request[p].name = request[q].name
         /\ Observed(p) = Observed(q))
            => /\ ~(Succeeded(p) /\ Succeeded(q))
               /\ (Succeeded(p) /\ pc[q] = "done")
                     => /\ Status(q) = 500
                        /\ calls[q][2].err \in errors
                        /\ store[<<namespace, request[p].name>>].spec
                              = request[p].body.spec

\* C9 as stated: with PUT requests only, every handler calls Get and then
\* at most one write (Create after NotFound, otherwise Update carrying the
\* version read), without retry; of two handlers that observed the same
\* state at most one succeeds, the other is answered 500 from the
\* AlreadyExists or Conflict error, and the stored spec is the spec of the
\* request that succeeded.
C9_AsStated ==
    /\ \A h \in Handlers : request[h].method = "PUT" => PutCallsInOrder(h)
    /\ OneWriteWins({"AlreadyExists", "Conflict"})

\* C9 amended: as above, but the 500 of the other request comes from the
\* error of its own Store write: AlreadyExists from Create or Conflict from
\* Update when the store was reached, or the backend's own failure.
C9_NoLostWrite ==
    /\ \A h \in Handlers : request[h].method = "PUT" => PutCallsInOrder(h)
    /\ OneWriteWins({"AlreadyExists", "Conflict", "BackendUnavailable"})
    /\ \A h \in Handlers :
          (request[h].method = "PUT" /\ Len(calls[h]) = 2)
              => /\ calls[h][2].op = "Create" => calls[h][2].err # "Conflict"
                 /\ calls[h][2].op = "Update" => calls[h][2].err # "AlreadyExists"

\* C9 witness: both handlers read the same version of x; one update was
\* answered 200, the other 500 after a Conflict.
C9_Witness ==
    \E p, q \in Handlers :
        /\ p # q
        /\ HasObserved(p) /\ HasObserved(q)
        /\ Observed(p) = Observed(q) /\ Observed(p) >= 1
        /\ request[p].body.spec # request[q].body.spec
        /\ Succeeded(p) /\ Status(p) = 200
        /\ pc[q] = "done" /\ Status(q) = 500
        /\ calls[q][2] = Call("Update", "Conflict", Observed(q))

\* C10: a PUT whose body cannot be decoded is answered with one write of
\* status 400 and calls no Store operation.
C10_DecodeErrorAnsweredOnce ==
    \A h \in Handlers :
        (pc[h] = "done" /\ request[h].method = "PUT" /\ ~request[h].body.decodes)
            => /\ response[h] = <<ErrorWrite(400)>>
               /\ calls[h] = <<>>

(***************************************************************************)
(* Properties of the listeners package.                                    *)
(***************************************************************************)
\* the access-control rule carried by a filter installed by the configurer
RuleOf(filter) == filter.typedConfig.rbac

IsRbacFilter(filter) ==
    /\ filter.name = RoleBasedAccessControl
    /\ filter.typedConfig.kind = "rbac"

BuiltWithRBAC == phase = "built" /\ rbacEnabled /\ ~buildErr

\* C1: when the build with the access-control configurer succeeds, every
\* filter chain that held the filters S before holds one more filter
\* afterwards: the access-control filter first, then S in its old order.
C1_FilterPrecedence ==
    [][(phase = "configured" /\ phase' = "built" /\ rbacEnabled /\ ~buildErr')
        => /\ Len(listener'.filterChains) = Len(listener.filterChains)
           /\ listener'.name = listener.name
           /\ \A i \in 1..Len(listener.filterChains) :
                 /\ Len(listener'.filterChains[i])
                        = Len(listener.filterChains[i]) + 1
                 /\ IsRbacFilter(Head(listener'.filterChains[i]))
                 /\ Tail(listener'.filterChains[i]) = listener.filterChains[i]]_vars

\* C1 witness: a built listener with two chains, the first of which is
\* [access control, http, tcp].
C1_Witness ==
    /\ BuiltWithRBAC
    /\ Len(listener.filterChains) = 2
    /\ Len(listener.filterChains[1]) = 3
    /\ IsRbacFilter(listener.filterChains[1][1])
    /\ listener.filterChains[1][2] = HttpConnectionManager
    /\ listener.filterChains[1][3] = TcpProxy

\* C2: default deny.  With access control enabled and an empty permission
\* list the build succeeds and every filter chain starts with an
\* access-control filter whose rule has action ALLOW and no policy.
C2_DefaultDeny ==
    (phase = "built" /\ rbacEnabled /\ permissions = <<>>)
        => /\ ~buildErr
           /\ \A i \in 1..Len(listener.filterChains) :
                 /\ listener.filterChains[i] # <<>>
                 /\ IsRbacFilter(Head(listener.filterChains[i]))
                 /\ RuleOf(Head(listener.filterChains[i])).rules.action = "ALLOW"
                 /\ DOMAIN RuleOf(Head(listener.filterChains[i])).rules.policies = {}

\* C2 witness: a listener built with an empty permission list whose chain
\* carries the access-control filter.
C2_Witness ==
    /\ phase = "built" /\ rbacEnabled /\ permissions = <<>>
    /\ Len(listener.filterChains) >= 1
    /\ IsRbacFilter(Head(listener.filterChains[1]))
    /\ DOMAIN RuleOf(Head(listener.filterChains[1])).rules.policies = {}

StrSpiffeM1Web ==
    <<"s","p","i","f","f","e",":","/","/","m","1","/","w","e","b">>

\* C3: in every installed rule, the policy of a permission has exactly one
\* principal per source selector, in source order: "any" exactly for the
\* wildcard service, otherwise an exact match on spiffe://<mesh>/<service>
\* with the permission's own mesh.  sources = [*] gives a single any
\* principal; allow-web of mesh m1 with sources = [web] gives the exact
\* principal spiffe://m1/web.
C3_Principals ==
    BuiltWithRBAC =>
        \A i \in 1..Len(listener.filterChains) :
        \A j \in 1..Len(permissions) :
            LET perm == permissions[j]
                principals ==
                    RuleOf(Head(listener.filterChains[i])).rules
                        .policies[perm.name].principals
            IN  /\ Len(principals) = Len(perm.sources)
                /\ \A k \in 1..Len(perm.sources) :
                      /\ (principals[k].identifier = "Any")
                            <=> (perm.sources[k].service = <<"*">>)
                      /\ principals[k].identifier # "Any"
                            => /\ principals[k].identifier = "Authenticated"
                               /\ principals[k].exact
                                     = <<"s","p","i","f","f","e",":","/","/">>
                                       \o perm.mesh \o <<"/">>
                                       \o perm.sources[k].service
                /\ perm.sources = <<[service |-> <<"*">>]>>
                      => principals = <<AnyPrincipal>>
                /\ (perm.name = StrAllowWeb /\ perm.mesh = StrM1
                        /\ perm.sources = <<[service |-> StrWeb]>>)
                      => principals = <<AuthenticatedPrincipal(StrSpiffeM1Web)>>

\* C3 witness: allow-web of mesh m1 with source web is installed with the
\* exact principal spiffe://m1/web, next to a permission with two sources.
C3_Witness ==
    /\ BuiltWithRBAC
    /\ Len(listener.filterChains) >= 1
    /\ Len(permissions) = 2
    /\ permissions[1] = [name |-> StrAllowWeb, mesh |-> StrM1,
                         sources |-> <<[service |-> StrWeb]>>]
    /\ Len(permissions[2].sources) = 2
    /\ RuleOf(Head(listener.filterChains[1])).rules.policies[StrAllowWeb].principals
          = <<AuthenticatedPrincipal(StrSpiffeM1Web)>>

\* the scenario of C6: mesh default, permission allow-all with source *,
\* listener inbound:127.0.0.1:21011 with at least one filter chain
StatPrefixScenario ==
    /\ phase = "built"
    /\ rbacEnabled
    /\ listener.name = StrInbound
    /\ Len(listener.filterChains) >= 1
    /\ permissions = <<[name |-> StrAllowAll, mesh |-> StrDefault,
                        sources |-> <<[service |-> MatchAllTag]>>]>>

OnePolicyWithAnyPrincipal(rule) ==
    /\ DOMAIN rule.rules.policies = {StrAllowAll}
    /\ rule.rules.policies[StrAllowAll].principals = <<AnyPrincipal>>

\* C6 as stated: the stat prefix is "inbound_127_0_0_1_21011rbac.".
C6_StatPrefixAsStated ==
    StatPrefixScenario =>
        /\ ~buildErr
        /\ \A i \in 1..Len(listener.filterChains) :
              LET rule == RuleOf(Head(listener.filterChains[i]))
              IN  /\ rule.statPrefix
                        = <<"i","n","b","o","u","n","d","_","1","2","7","_","0",
                            "_","0","_","1","_","2","1","0","1","1",
                            "r","b","a","c",".">>
                  /\ OnePolicyWithAnyPrincipal(rule)

\* C6 amended: in the scenario the stat prefix is "inbound_127_0_0_1_21011."
\* (the sanitized listener name and the separator, without "rbac"), and
\* the rule has exactly one policy, whose only principal is "any".
C6_StatPrefix ==
    StatPrefixScenario =>
        /\ ~buildErr
        /\ \A i \in 1..Len(listener.filterChains) :
              LET rule == RuleOf(Head(listener.filterChains[i]))
              IN  /\ rule.statPrefix
                        = <<"i","n","b","o","u","n","d","_","1","2","7","_","0",
                            "_","0","_","1","_","2","1","0","1","1",".">>
                  /\ OnePolicyWithAnyPrincipal(rule)

\* C6 witness: the scenario has been built and its first chain starts with
\* the access-control filter.
C6_Witness ==
    /\ StatPrefixScenario
    /\ ~buildErr
    /\ IsRbacFilter(Head(listener.filterChains[1]))

CarriesRbac(chain) == chain # <<>> /\ IsRbacFilter(Head(chain))

\* C11: Configure is all-or-nothing on one listener.  A build step that
\* returns an error leaves the listener as it was, name and every filter
\* chain; a build step without error leaves either every chain or no chain
\* with the access-control filter in front (every chain when the configurer
\* was registered), so a listener with the filter on some chains only is
\* never produced.
C11_AllOrNothing ==
    [][(phase = "configured" /\ phase' = "built")
        => /\ buildErr' => listener' = listener
           /\ \A i, j \in 1..Len(listener'.filterChains) :
                 CarriesRbac(listener'.filterChains[i])
                     <=> CarriesRbac(listener'.filterChains[j])
           /\ (rbacEnabled /\ ~buildErr')
                 => \A i \in 1..Len(listener'.filterChains) :
                       CarriesRbac(listener'.filterChains[i])]_vars

\* C11 witness: the build of a listener with two non-empty filter chains
\* has returned an error (a permission whose identity cannot be
\* marshalled), and neither chain carries the access-control filter.
C11_Witness ==
    /\ phase = "built"
    /\ rbacEnabled
    /\ buildErr
    /\ Len(listener.filterChains) = 2
    /\ listener.filterChains[1] = <<HttpConnectionManager, TcpProxy>>
    /\ listener.filterChains[2] = <<TcpProxy>>
    /\ \E j \in 1..Len(permissions) : permissions[j].mesh = StrBadMesh

====
